---- MODULE Spec2Model ----
(***************************************************************************)
(* The two numeric layers of the notebooks under Inbuilt_Modules_Vs_Custom2 *)
(* as state machines:                                                       *)
(*   - class BatchNormalization (BatchNormalization.ipynb): the instance    *)
(*     fields gamma, beta, running_mean, running_var and the methods        *)
(*     forward and update_params;                                           *)
(*   - class custom_LocalResponseNormalization (Local Response              *)
(*     Normalization.ipynb): the configuration and the method forward.      *)
(* numpy arrays are records [shape, val]; val maps every index tuple of     *)
(* the shape to a rational number [n, d] in lowest terms (the arithmetic    *)
(* of the code is modelled exactly, without floating-point rounding).       *)
(* The results of np.sqrt and of ** are not rationals: for those the model  *)
(* keeps the operand (the radicand, the LRN scale) and the result's shape.  *)
(***************************************************************************)
EXTENDS Integers, Sequences, FiniteSets, TLC

VARIABLES
    notebook,       \* which of the two notebooks this kernel session runs
    epsilon,        \* BatchNormalization.epsilon
    momentum,       \* BatchNormalization.momentum
    gamma,          \* BatchNormalization.gamma        (None or an array)
    beta,           \* BatchNormalization.beta         (None or an array)
    running_mean,   \* BatchNormalization.running_mean (None or an array)
    running_var,    \* BatchNormalization.running_var  (None or an array)
    call,           \* the last BatchNormalization method call: arguments, locals, outcome
    trace,          \* what the calls made so far did (counts, statistics the inference calls used)
    lrn,            \* the custom_LocalResponseNormalization instance (its four fields)
    lrn_call        \* the last custom_LocalResponseNormalization.forward call

vars == <<notebook, epsilon, momentum, gamma, beta, running_mean, running_var,
          call, trace, lrn, lrn_call>>

bn_vars == <<epsilon, momentum, gamma, beta, running_mean, running_var, call, trace>>

lrn_vars == <<lrn, lrn_call>>

-----------------------------------------------------------------------------
(* Bounds of the model. *)

\* method calls made on one BatchNormalization instance
MaxCalls == 3

\* largest extent of a feature axis of a BatchNormalization input or parameter
MaxFeat == 3

\* largest channel count C of a Local Response Normalization input
MaxChannels == 4

\* largest |depth_radius| a custom_LocalResponseNormalization is built with
MaxRadius == 5

-----------------------------------------------------------------------------
(* Python's None, as a record so that it compares with arrays. *)
None == [none |-> TRUE]

(* Rational numbers in lowest terms with a positive denominator. *)
Abs(x) == IF x < 0 THEN 0 - x ELSE x

Max(a, b) == IF a >= b THEN a ELSE b

Min(a, b) == IF a <= b THEN a ELSE b

RECURSIVE GCD(_, _)
GCD(a, b) == IF b = 0 THEN a ELSE GCD(b, a % b)

Rat(n, d) ==
    LET g == GCD(Abs(n), d)
    IN  [n |-> n \div g, d |-> d \div g]

RInt(k) == [n |-> k, d |-> 1]

\* the least common denominator, which keeps the intermediate products small
LCD(a, b) == (a.d \div GCD(a.d, b.d)) * b.d

RAdd(a, b) ==
    Rat(a.n * (LCD(a, b) \div a.d) + b.n * (LCD(a, b) \div b.d), LCD(a, b))

RSub(a, b) ==
    Rat(a.n * (LCD(a, b) \div a.d) - b.n * (LCD(a, b) \div b.d), LCD(a, b))

RMul(a, b) ==
    LET g == GCD(Abs(a.n), b.d)
        h == GCD(Abs(b.n), a.d)
    IN  Rat((a.n \div g) * (b.n \div h), (a.d \div h) * (b.d \div g))

RDivInt(a, k) == Rat(a.n, a.d * k)

RLt(a, b) == a.n * (LCD(a, b) \div a.d) < b.n * (LCD(a, b) \div b.d)

RLe(a, b) == a.n * (LCD(a, b) \div a.d) <= b.n * (LCD(a, b) \div b.d)

-----------------------------------------------------------------------------
(* numpy arrays of rank 0..4 and numpy's broadcasting. *)

\* the index tuples of an array of the given shape (1-based)
Idx(shape) ==
    CASE Len(shape) = 0 -> {<<>>}
      [] Len(shape) = 1 -> {<<i>> : i \in 1..shape[1]}
      [] Len(shape) = 2 -> {<<i, j>> : i \in 1..shape[1], j \in 1..shape[2]}
      [] Len(shape) = 3 ->
            {<<i, j, k>> : i \in 1..shape[1], j \in 1..shape[2], k \in 1..shape[3]}
      [] Len(shape) = 4 ->
            {<<i, j, k, l>> : i \in 1..shape[1], j \in 1..shape[2],
                              k \in 1..shape[3], l \in 1..shape[4]}

Arr(shape, f) == [shape |-> shape, val |-> f]

\* np.ones(shape), np.zeros(shape) and other constant arrays
Full(shape, v) == Arr(shape, [i \in Idx(shape) |-> v])

\* extent of axis k of a shape once aligned to the right in rank r
PadDim(shape, r, k) ==
    IF k <= r - Len(shape) THEN 1 ELSE shape[k - (r - Len(shape))]

\* numpy's broadcasting rule: aligned from the right, extents agree or one is 1
Broadcastable(s, t) ==
    LET r == Max(Len(s), Len(t))
    IN  \A k \in 1..r :
            \/ PadDim(s, r, k) = PadDim(t, r, k)
            \/ PadDim(s, r, k) = 1
            \/ PadDim(t, r, k) = 1

BroadcastShape(s, t) ==
    LET r == Max(Len(s), Len(t))
    IN  [k \in 1..r |-> Max(PadDim(s, r, k), PadDim(t, r, k))]

\* the element of array a that index i of the broadcast result (rank r) reads
At(a, r, i) ==
    LET off == r - Len(a.shape)
    IN  a.val[[j \in 1..Len(a.shape) |-> IF a.shape[j] = 1 THEN 1 ELSE i[j + off]]]

\* a + b for two broadcastable arrays
ArrAdd(a, b) ==
    LET s == BroadcastShape(a.shape, b.shape)
        r == Len(s)
    IN  Arr(s, [i \in Idx(s) |-> RAdd(At(a, r, i), At(b, r, i))])

\* scalar * array, array + scalar
Scale(c, a) == Arr(a.shape, [i \in Idx(a.shape) |-> RMul(c, a.val[i])])

AddScalar(a, c) == Arr(a.shape, [i \in Idx(a.shape) |-> RAdd(a.val[i], c)])

\* X.shape[1:]
ShapeTail(shape) == SubSeq(shape, 2, Len(shape))

RECURSIVE SumAxis0(_, _, _)
SumAxis0(X, i, n) ==
    IF n = 0 THEN RInt(0) ELSE RAdd(X.val[<<n>> \o i], SumAxis0(X, i, n - 1))

-----------------------------------------------------------------------------
(* class BatchNormalization *)

\* np.sum(X, axis=0) where the code calls np.mean: the division by N left out
np_mean_undivided(X) ==
    LET N    == X.shape[1]
        rest == ShapeTail(X.shape)
    IN  Arr(rest, [i \in Idx(rest) |-> SumAxis0(X, i, N)])

\* np.mean(X, axis=0)
np_mean(X) ==
    LET N    == X.shape[1]
        rest == ShapeTail(X.shape)
    IN  Arr(rest, [i \in Idx(rest) |-> RDivInt(SumAxis0(X, i, N), N)])

\* a variance with the sign slipped: the square of the mean less the mean of
\* the squares
np_var_sign_slip(X) ==
    LET m  == np_mean(X)
        sq == Arr(X.shape, [i \in Idx(X.shape) |-> RMul(X.val[i], X.val[i])])
        m2 == np_mean(sq)
    IN  Arr(m.shape, [i \in Idx(m.shape) |-> RSub(RMul(m.val[i], m.val[i]), m2.val[i])])

\* np.var(X, axis=0): the mean over axis 0 of (X - mean)**2, ddof = 0
np_var(X) ==
    LET m    == np_mean(X)
        dev2 == Arr(X.shape,
                    [i \in Idx(X.shape) |->
                        LET d == RSub(X.val[i], m.val[Tail(i)]) IN RMul(d, d)])
    IN  np_mean(dev2)

\* initialize_params(shape): the four arrays it allocates
initialize_params(shape) ==
    [gamma        |-> Full(shape, RInt(1)),
     beta         |-> Full(shape, RInt(0)),
     running_mean |-> Full(shape, RInt(0)),
     running_var  |-> Full(shape, RInt(1))]

\* forward's guard of the lazy initialisation
NeedsInit(self) == self.gamma = None \/ self.beta = None

\* a forward that takes the training path whatever `training` is
AlwaysBatchStatistics(training) == TRUE

\* forward's branch: batch statistics (and the running update) or running statistics
UseBatchStatistics(training) == training

\* the update with its two weights exchanged
RunningUpdateSwapped(mom, running, batch) ==
    ArrAdd(Scale(RSub(RInt(1), mom), running), Scale(mom, batch))

\* self.momentum * running + (1 - self.momentum) * batch
RunningUpdate(mom, running, batch) ==
    ArrAdd(Scale(mom, running), Scale(RSub(RInt(1), mom), batch))

\* A path's outcome: the fields as the path leaves them, the exception it raised
\* ("" when none) and the line that raised, the shape of X_norm, the array under
\* np.sqrt, and the batch statistics.
Outcome(self, raised, line, xn, rad, bm, bv) ==
    [self |-> self, raised |-> raised, line |-> line, x_norm_shape |-> xn,
     radicand |-> rad, batch_mean |-> bm, batch_var |-> bv]

\* one of the two running-statistics assignments of the training path
\* (float * None is a TypeError, a broadcasting failure a ValueError)
UpdateRaises(running, batch) ==
    IF running = None THEN "TypeError"
    ELSE IF ~Broadcastable(running.shape, batch.shape) THEN "ValueError"
    ELSE ""

\* the training path of forward
TrainingPath(self, mom, eps, X) ==
    LET batch_mean == np_mean(X)
        batch_var  == np_var(X)
        rad        == AddScalar(batch_var, eps)
        xn         == BroadcastShape(BroadcastShape(X.shape, batch_mean.shape), rad.shape)
        e90        == UpdateRaises(self.running_mean, batch_mean)
        self90     == IF e90 = "" THEN
                          [self EXCEPT !.running_mean =
                              RunningUpdate(mom, self.running_mean, batch_mean)]
                      ELSE self
        e91        == UpdateRaises(self.running_var, batch_var)
        self91     == IF e91 = "" THEN
                          [self90 EXCEPT !.running_var =
                              RunningUpdate(mom, self.running_var, batch_var)]
                      ELSE self90
    IN  IF e90 # "" THEN Outcome(self, e90, 90, xn, rad, batch_mean, batch_var)
        ELSE IF e91 # "" THEN Outcome(self90, e91, 91, xn, rad, batch_mean, batch_var)
        ELSE Outcome(self91, "", 0, xn, rad, batch_mean, batch_var)

\* the inference path of forward
InferencePath(self, eps, X) ==
    IF self.running_mean = None \/ self.running_var = None THEN
        Outcome(self, "TypeError", 94, None, None, None, None)
    ELSE IF ~Broadcastable(X.shape, self.running_mean.shape) THEN
        Outcome(self, "ValueError", 94, None, None, None, None)
    ELSE
        LET num == BroadcastShape(X.shape, self.running_mean.shape)
            rad == AddScalar(self.running_var, eps)
        IN  IF ~Broadcastable(num, rad.shape) THEN
                Outcome(self, "ValueError", 94, None, rad, None, None)
            ELSE Outcome(self, "", 0, BroadcastShape(num, rad.shape), rad, None, None)

\* out = self.gamma * X_norm + self.beta: the exception raised ("" when none)
AffineRaises(self, xn) ==
    IF ~Broadcastable(self.gamma.shape, xn) THEN "ValueError"
    ELSE IF ~Broadcastable(BroadcastShape(self.gamma.shape, xn), self.beta.shape)
    THEN "ValueError"
    ELSE ""

\* the shape of out
AffineShape(self, xn) ==
    BroadcastShape(BroadcastShape(self.gamma.shape, xn), self.beta.shape)

\* the whole of forward(X, training) from the fields `self`
ForwardOutcome(self, mom, eps, X, training) ==
    LET inited == NeedsInit(self)
        self0  == IF inited THEN initialize_params(ShapeTail(X.shape)) ELSE self
        path   == IF UseBatchStatistics(training)
                  THEN TrainingPath(self0, mom, eps, X)
                  ELSE InferencePath(self0, eps, X)
        e97    == IF path.raised # "" THEN path.raised
                  ELSE AffineRaises(path.self, path.x_norm_shape)
    IN  [self      |-> path.self,
         inited    |-> inited,
         result    |-> IF e97 = "" THEN "returned" ELSE e97,
         line      |-> IF path.raised # "" THEN path.line ELSE IF e97 # "" THEN 97 ELSE 98,
         out_shape |-> IF e97 = "" THEN AffineShape(path.self, path.x_norm_shape) ELSE None,
         x_norm_shape |-> path.x_norm_shape,
         radicand  |-> path.radicand,
         used      |-> IF ~UseBatchStatistics(training) /\ path.line # 94
                       THEN [running_mean |-> self0.running_mean,
                             running_var  |-> self0.running_var]
                       ELSE None,
         batch_mean |-> path.batch_mean,
         batch_var  |-> path.batch_var]

Self == [gamma |-> gamma, beta |-> beta,
         running_mean |-> running_mean, running_var |-> running_var]

NoCall == [op |-> "none"]

\* The record of the calls made so far: how many calls and forward calls, how
\* often initialize_params ran and the shape it was handed (<<>> before, <<shape>>
\* after), the statistics the last inference call normalised with, and the
\* training calls made since that inference call (input and the line that
\* raised, 98 for a return).
NewTrace == [n_calls |-> 0, n_forward |-> 0, n_init |-> 0, feature_shape |-> <<>>,
             inference_used |-> None, trained_since |-> <<>>]

\* what a forward call adds to the trace
TraceForward(tr, o, X, training) ==
    [n_calls   |-> tr.n_calls + 1,
     n_forward |-> tr.n_forward + 1,
     n_init    |-> tr.n_init + (IF o.inited THEN 1 ELSE 0),
     feature_shape |-> IF o.inited THEN <<ShapeTail(X.shape)>> ELSE tr.feature_shape,
     inference_used |-> IF o.used # None THEN o.used ELSE tr.inference_used,
     trained_since  |->
        IF o.used # None THEN <<>>
        ELSE IF training /\ tr.inference_used # None
        THEN Append(tr.trained_since, [X |-> X, line |-> o.line])
        ELSE tr.trained_since]

forward(X, training) ==
    /\ notebook = "BatchNormalization"
    /\ trace.n_calls < MaxCalls
    /\ \E o \in {ForwardOutcome(Self, momentum, epsilon, X, training)} :
           /\ gamma' = o.self.gamma
           /\ beta' = o.self.beta
           /\ running_mean' = o.self.running_mean
           /\ running_var' = o.self.running_var
           /\ call' = [op |-> "forward", X |-> X, training |-> training,
                       inited |-> o.inited, result |-> o.result, line |-> o.line,
                       out_shape |-> o.out_shape, radicand |-> o.radicand,
                       used |-> o.used,
                       previously_used |-> trace.inference_used,
                       trained_since |-> trace.trained_since]
           /\ trace' = TraceForward(trace, o, X, training)
    /\ UNCHANGED <<notebook, epsilon, momentum, lrn_vars>>

update_params(g, b) ==
    /\ notebook = "BatchNormalization"
    /\ trace.n_calls < MaxCalls
    /\ gamma' = g
    /\ beta' = b
    /\ call' = [op |-> "update_params", gamma |-> g, beta |-> b]
    /\ trace' = [trace EXCEPT !.n_calls = @ + 1]
    /\ UNCHANGED <<notebook, epsilon, momentum, running_mean, running_var, lrn_vars>>

(* The inputs of the calls. *)

\* the base columns of the batches: a batch of one row, a batch of two
\* rows whose mean is 0 and whose variance is 1, and a batch of three rows
Columns == {<<1>>, <<-1, 1>>, <<2, 2, 5>>}

\* the feature shapes X.shape[1:] of the batches
FeatShapes == {<<f>> : f \in 1..MaxFeat}

\* the batch of Len(col) rows whose feature f holds f * col[n] in row n
Batch(fs, col) ==
    Arr(<<Len(col)>> \o fs,
        [i \in Idx(<<Len(col)>> \o fs) |-> RInt(i[2] * col[i[1]])])

Batches == {Batch(fs, col) : fs \in FeatShapes, col \in Columns}

\* the arrays update_params is handed: of a shape that broadcasts with every
\* feature shape, and of one that broadcasts with none of the batches'
ParamShapes == {<<1>>, <<MaxFeat + 1>>}

Gammas == {Full(s, RInt(2)) : s \in ParamShapes}

Betas == {Full(s, RInt(1)) : s \in ParamShapes}

\* __init__'s arguments
Momenta == {Rat(0, 1), Rat(9, 10), Rat(1, 1)}

Epsilons == {Rat(1, 100000)}

InitBN ==
    /\ notebook = "BatchNormalization"
    /\ epsilon \in Epsilons
    /\ momentum \in Momenta
    /\ gamma = None
    /\ beta = None
    /\ running_mean = None
    /\ running_var = None
    /\ call = NoCall
    /\ trace = NewTrace
    /\ lrn = None
    /\ lrn_call = NoCall

-----------------------------------------------------------------------------
(* class custom_LocalResponseNormalization *)

\* start without its clamp at 0
WindowStartUnclamped(c, depth_radius) == c - (depth_radius \div 2)

\* start = max(0, c - self.depth_radius // 2)
WindowStart(c, depth_radius) == Max(0, c - (depth_radius \div 2))

\* end = min(C, c + self.depth_radius // 2 + 1)
WindowEnd(c, depth_radius, C) == Min(C, c + (depth_radius \div 2) + 1)

\* a bound of a Python slice over an axis of length C: a negative bound counts
\* from the end, and every bound is clipped to 0..C
SliceBound(k, C) == IF k < 0 THEN Max(k + C, 0) ELSE Min(k, C)

\* the channels (0-based) that squared_input[n, start:end, :, :] selects
Slice(start, end, C) ==
    {k \in 0..(C - 1) : SliceBound(start, C) <= k /\ k < SliceBound(end, C)}

\* np.square(X)
np_square(X) == Arr(X.shape, [i \in Idx(X.shape) |-> RMul(X.val[i], X.val[i])])

RECURSIVE SumOver(_, _, _, _)
SumOver(A, n, hw, channels) ==
    IF channels = {} THEN RInt(0)
    ELSE LET k == CHOOSE x \in channels : TRUE
         IN  RAdd(A.val[<<n, k + 1>> \o hw], SumOver(A, n, hw, channels \ {k}))

\* np.sum(squared_input[n, start:end, :, :], axis=0): an H x W array
LocalSum(squared_input, n, channels) ==
    LET hw == SubSeq(squared_input.shape, 3, 4)
    IN  Arr(hw, [i \in Idx(hw) |-> SumOver(squared_input, n, i, channels)])

\* scale = self.bias + (self.alpha * local_sum)
LRNScale(bias, alpha, local_sum) == AddScalar(Scale(alpha, local_sum), bias)

\* the whole of forward(X), for every n and c of the two loops
LRNForwardOutcome(self, X) ==
    IF Len(X.shape) # 4 THEN
        [op |-> "forward", X |-> X, result |-> "ValueError"]
    ELSE
        LET N == X.shape[1]
            C == X.shape[2]
            squared_input == np_square(X)
            window == [c \in 0..(C - 1) |->
                          Slice(WindowStart(c, self.depth_radius),
                                WindowEnd(c, self.depth_radius, C), C)]
            local_sum == [nc \in (1..N) \X (0..(C - 1)) |->
                             LocalSum(squared_input, nc[1], window[nc[2]])]
        IN  [op |-> "forward", X |-> X, result |-> "returned",
             window |-> window,
             local_sum |-> local_sum,
             scale |-> [nc \in (1..N) \X (0..(C - 1)) |->
                           LRNScale(self.bias, self.alpha, local_sum[nc])],
             out_shape |-> X.shape]

lrn_forward(X) ==
    /\ notebook = "Local Response Normalization"
    /\ lrn_call' = LRNForwardOutcome(lrn, X)
    /\ UNCHANGED <<notebook, bn_vars, lrn>>

\* the values of the activations
Activations == {-1, 2}

\* the inputs: one image of one pixel with C channels, and a 3-dimensional array
Images ==
    UNION {{Arr(<<1, C, 1, 1>>, [i \in Idx(<<1, C, 1, 1>>) |-> RInt(a[i[2]])]) :
                a \in [1..C -> Activations]} : C \in 1..MaxChannels}
    \cup {Full(<<1, 2, 1>>, RInt(2))}

\* __init__'s arguments
Radii == (0 - MaxRadius)..MaxRadius

Biases == {Rat(1, 1)}

Alphas == {Rat(0, 1), Rat(1, 10000), Rat(2, 1)}

Exponents == {Rat(3, 4)}

InitLRN ==
    /\ notebook = "Local Response Normalization"
    /\ lrn \in [depth_radius : Radii, bias : Biases, alpha : Alphas, beta : Exponents]
    /\ lrn_call = NoCall
    /\ epsilon = None
    /\ momentum = None
    /\ gamma = None
    /\ beta = None
    /\ running_mean = None
    /\ running_var = None
    /\ call = NoCall
    /\ trace = NewTrace

Init == InitBN \/ InitLRN

Next ==
    \/ \E X \in Batches, training \in BOOLEAN : forward(X, training)
    \/ \E g \in Gammas, b \in Betas : update_params(g, b)
    \/ \E X \in Images : lrn_forward(X)

Spec == Init /\ [][Next]_vars

-----------------------------------------------------------------------------
(* The properties checked of the two classes. *)

\* the population mean and variance of X over the batch axis, divisor N:
\* the variance as the mean of the squares less the square of the mean
PopulationMean(X) ==
    LET N == X.shape[1]
        fs == ShapeTail(X.shape)
    IN  Arr(fs, [i \in Idx(fs) |-> RDivInt(SumAxis0(X, i, N), N)])

PopulationVar(X) ==
    LET N  == X.shape[1]
        fs == ShapeTail(X.shape)
        m  == PopulationMean(X)
        sq == Arr(X.shape, [i \in Idx(X.shape) |-> RMul(X.val[i], X.val[i])])
    IN  Arr(fs, [i \in Idx(fs) |->
                    RSub(RDivInt(SumAxis0(sq, i, N), N), RMul(m.val[i], m.val[i]))])

\* new = mom * old + (1 - mom) * batch, elementwise under numpy's broadcasting
IsBlend(mom, old, batch, new) ==
    /\ Broadcastable(old.shape, batch.shape)
    /\ new.shape = BroadcastShape(old.shape, batch.shape)
    /\ \A i \in Idx(new.shape) :
           new.val[i] = RAdd(RMul(mom, At(old, Len(new.shape), i)),
                             RMul(RSub(RInt(1), mom), At(batch, Len(new.shape), i)))

\* a step that is a forward call, in training or in inference mode
TrainingStep == call'.op = "forward" /\ call'.training

InferenceStep == call'.op = "forward" /\ ~call'.training

\* the running statistics a forward step starts from, once its lazy
\* initialisation (if any) has run
StartMean ==
    IF gamma = None \/ beta = None
    THEN Full(ShapeTail(call'.X.shape), RInt(0)) ELSE running_mean

StartVar ==
    IF gamma = None \/ beta = None
    THEN Full(ShapeTail(call'.X.shape), RInt(1)) ELSE running_var

RunningChanged == running_mean' # running_mean \/ running_var' # running_var

\* C1 (as claimed): initialize_params runs exactly once, in the first forward
\* call: before the first forward call nothing is allocated by it, and from the
\* first forward call on it has run once and the four arrays are allocated.
C1_InitialisedOnceByFirstForward ==
    /\ trace.n_forward = 0 => trace.n_init = 0
    /\ trace.n_forward >= 1 =>
           /\ trace.n_init = 1
           /\ gamma # None /\ beta # None
           /\ running_mean # None /\ running_var # None

\* C2 (as claimed): every forward call with training=true replaces the running
\* statistics by momentum*running + (1-momentum)*batch statistic, the batch
\* statistics being the population mean and variance of X.
C2_EveryTrainingCallUpdates ==
    [][TrainingStep =>
          /\ StartMean # None /\ StartVar # None
          /\ IsBlend(momentum, StartMean, PopulationMean(call'.X), running_mean')
          /\ IsBlend(momentum, StartVar, PopulationVar(call'.X), running_var')]_vars

\* C2 (amended): a forward call with training=true made when the running
\* statistics are allocated (by an earlier call or by this call's lazy
\* initialisation) and broadcast with X.shape[1:] replaces them by
\* momentum*running + (1-momentum)*batch statistic, even when the call then
\* raises at the scale-and-shift step; any other training call raises at the
\* update and leaves them as they were.  The first call of a fresh instance
\* yields (1-momentum)*batch_mean and momentum + (1-momentum)*batch_var.
C2_TrainingUpdateLaw ==
    [][TrainingStep =>
          /\ IF /\ StartMean # None /\ StartVar # None
                /\ Broadcastable(StartMean.shape, ShapeTail(call'.X.shape))
                /\ Broadcastable(StartVar.shape, ShapeTail(call'.X.shape))
             THEN /\ IsBlend(momentum, StartMean, PopulationMean(call'.X), running_mean')
                  /\ IsBlend(momentum, StartVar, PopulationVar(call'.X), running_var')
             ELSE /\ call'.result # "returned"
                  /\ ~RunningChanged
          /\ trace.n_calls = 0 =>
                /\ running_mean' = Scale(RSub(RInt(1), momentum), PopulationMean(call'.X))
                /\ running_var' = AddScalar(Scale(RSub(RInt(1), momentum),
                                                  PopulationVar(call'.X)), momentum)]_vars

\* C2 witness: with momentum 0.9, a training call on an instance initialised by
\* an earlier call, after which the running mean is no longer the zeros it was
\* allocated as.
C2_Witness ==
    /\ call.op = "forward" /\ call.training /\ ~call.inited
    /\ call.result = "returned"
    /\ momentum = Rat(9, 10)
    /\ \E i \in Idx(running_mean.shape) : running_mean.val[i] # RInt(0)

\* C3 (as claimed): the running statistics change only in forward calls with
\* training=true; a forward call with training=false leaves them as they were,
\* in every state of the instance.
C3_OnlyTrainingChangesRunning ==
    [][RunningChanged => TrainingStep]_vars

\* C3 (amended): a forward call with training=false made when gamma and beta are
\* set leaves running_mean and running_var as they were; the running statistics
\* change only in forward calls with training=true and in the forward call
\* (training or not) that finds gamma or beta unset and allocates them.
C3_InferenceKeepsRunning ==
    [][/\ (InferenceStep /\ gamma # None /\ beta # None) => ~RunningChanged
       /\ RunningChanged =>
              /\ call'.op = "forward"
              /\ call'.training \/ gamma = None \/ beta = None]_vars

\* C3 witness: an inference call that returned, on an instance whose running
\* statistics an earlier training call had moved away from zeros.
C3_Witness ==
    /\ call.op = "forward" /\ ~call.training /\ ~call.inited
    /\ call.result = "returned"
    /\ \E i \in Idx(running_mean.shape) : running_mean.val[i] # RInt(0)

\* C4 (as claimed): once initialize_params has fixed the feature shape, a forward
\* call whose X.shape[1:] differs from it raises and leaves the shapes of
\* running_mean and running_var as they were.
C4_OtherShapeRejected ==
    [][(/\ call'.op = "forward"
        /\ trace.feature_shape # <<>>
        /\ ShapeTail(call'.X.shape) # trace.feature_shape[1]) =>
           /\ call'.result # "returned"
           /\ running_mean'.shape = running_mean.shape
           /\ running_var'.shape = running_var.shape]_vars

\* C5 (as claimed): once initialize_params has run, gamma, beta, running_mean and
\* running_var all have the feature shape it was handed.
C5_ShapesAreFeatureShape ==
    trace.feature_shape # <<>> =>
        /\ gamma.shape = trace.feature_shape[1]
        /\ beta.shape = trace.feature_shape[1]
        /\ running_mean.shape = trace.feature_shape[1]
        /\ running_var.shape = trace.feature_shape[1]

\* the sum of X[n, k, p]**2 over the channels lo <= k < hi (0-based)
RECURSIVE SquaresFrom(_, _, _, _, _)
SquaresFrom(X, n, p, lo, hi) ==
    IF lo >= hi THEN RInt(0)
    ELSE RAdd(RMul(X.val[<<n, lo + 1>> \o p], X.val[<<n, lo + 1>> \o p]),
              SquaresFrom(X, n, p, lo + 1, hi))

C7_NegativeRadiusRejected ==
    (/\ notebook = "Local Response Normalization"
     /\ lrn.depth_radius < 0
     /\ lrn_call.op = "forward") => lrn_call.result # "returned"

\* an inference call that normalised with running statistics, after an earlier
\* such call and exactly one training call in between
InferenceTrainingInference ==
    /\ call.op = "forward"
    /\ call.used # None
    /\ call.previously_used # None
    /\ Len(call.trained_since) = 1

\* old and batch differ somewhere (batch broadcast to old's shape)
Differs(old, batch) ==
    \E i \in Idx(old.shape) : old.val[i] # At(batch, Len(old.shape), i)

\* C8 (as claimed): a training call between two inference calls changes the
\* running statistics the second one uses, whatever the instance and the batch.
C8_TrainingBetweenAlwaysChanges ==
    InferenceTrainingInference => call.used # call.previously_used

\* C8 (amended): a training call between two inference calls changes the running
\* statistics the second one uses exactly when its update is applied (X.shape[1:]
\* broadcasts with the running statistics) and either broadcasting enlarges
\* them, or momentum # 1 and the batch mean or variance differs somewhere from
\* the running mean or variance; otherwise the second inference call uses the
\* same statistics as the first.
C8_TrainingBetweenChangesIff ==
    InferenceTrainingInference =>
        LET X   == call.trained_since[1].X
            fs  == ShapeTail(X.shape)
            old == call.previously_used
        IN  (call.used # call.previously_used) <=>
                /\ Broadcastable(old.running_mean.shape, fs)
                /\ \/ BroadcastShape(old.running_mean.shape, fs) # old.running_mean.shape
                   \/ /\ momentum # RInt(1)
                      /\ \/ Differs(old.running_mean, PopulationMean(X))
                         \/ Differs(old.running_var, PopulationVar(X))

\* C8 witness: with momentum 0.9, inference, one training call, inference, and
\* the second inference call used statistics of the same shape as the first
\* and of other values.
C8_Witness ==
    /\ InferenceTrainingInference
    /\ momentum = Rat(9, 10)
    /\ call.used # call.previously_used
    /\ call.used.running_mean.shape = call.previously_used.running_mean.shape
    /\ call.result = "returned"

\* C9 (as claimed): a forward call that raises leaves gamma, beta, running_mean
\* and running_var as they were.
C9_FailedForwardChangesNothing ==
    [][(call'.op = "forward" /\ call'.result # "returned") =>
          /\ gamma' = gamma /\ beta' = beta
          /\ running_mean' = running_mean /\ running_var' = running_var]_vars

\* C10: with epsilon > 0 and momentum in [0,1], every entry of running_var is
\* >= 0 and everything put under np.sqrt (running_var + epsilon, batch_var +
\* epsilon) is > 0; with bias > 0 and alpha >= 0, every entry of the LRN scale
\* bias + alpha*local_sum is > 0.
C10_PositiveUnderRootAndPower ==
    /\ (/\ notebook = "BatchNormalization"
        /\ RLt(RInt(0), epsilon)
        /\ RLe(RInt(0), momentum) /\ RLe(momentum, RInt(1))) =>
           /\ running_var # None =>
                  \A i \in Idx(running_var.shape) :
                      /\ RLe(RInt(0), running_var.val[i])
                      /\ RLt(RInt(0), RAdd(running_var.val[i], epsilon))
           /\ (call.op = "forward" /\ call.radicand # None) =>
                  \A i \in Idx(call.radicand.shape) : RLt(RInt(0), call.radicand.val[i])
    /\ (/\ notebook = "Local Response Normalization"
        /\ RLt(RInt(0), lrn.bias) /\ RLe(RInt(0), lrn.alpha)
        /\ lrn_call.op = "forward" /\ lrn_call.result = "returned") =>
           \A nc \in DOMAIN lrn_call.scale :
               \A p \in Idx(lrn_call.scale[nc].shape) :
                   RLt(RInt(0), lrn_call.scale[nc].val[p])

\* C10 witness: an inference call normalising with a running variance that
\* training on constant batches has brought down to 0 in some entry, so that
\* what is under the root there is epsilon alone.
C10_Witness ==
    /\ call.op = "forward" /\ ~call.training /\ call.result = "returned"
    /\ \E i \in Idx(running_var.shape) :
           /\ running_var.val[i] = RInt(0)
           /\ call.radicand.val[i] = epsilon

====
